---- MODULE Spec2Model ----
(***************************************************************************)
(* A model of dirtyget.py (class PodcastDownloader): configuration          *)
(* layering, feed selection, the URL dedup tracker and the per-episode      *)
(* download, driven by download_all_latest over several process runs.      *)
(* The filesystem, the network and the tracking file are the environment:  *)
(* each request, read, write, append and directory creation may fail, up   *)
(* to MaxFaults times in a behaviour; files and directories stay once made.*)
(***************************************************************************)
EXTENDS Integers, Sequences, FiniteSets, TLC

\* ------------------------------------------------------------------ bounds

\* Number of process runs (invocations of main) in one behaviour.
MaxRuns == 3
\* Number of environment failures (a request, a read, a write, a mkdir that
\* fails) in one behaviour.
MaxFaults == 2
\* Longest episode title handed to _generate_filename on its own.
MaxTitleLen == 3
\* Number of channel names the configurations handed to get_channels draw on.
MaxChannels == 2

\* ------------------------------------------------------------ plain values

\* An enclosure URL is [id, ext], ext being the extension of its path ("" when
\* it has none). NoUrl is the falsy value of episode['enclosure_url'] (None).
NoUrl == [id |-> "", ext |-> ""]

\* os.getcwd(): the default spool directory; it exists.
Cwd == "cwd"

Min(a, b) == IF a < b THEN a ELSE b

Max(a, b) == IF a > b THEN a ELSE b

\* The empty dict.
EmptyDict == [k \in {} |-> ""]

\* dict.get(key, default)
Get(d, k, default) == IF k \in DOMAIN d THEN d[k] ELSE default

\* Python's items[:m]: the first m for m >= 0, all but the last -m for m < 0.
PySlice(items, m) ==
  IF m >= 0 THEN SubSeq(items, 1, Min(m, Len(items)))
  ELSE SubSeq(items, 1, Max(Len(items) + m, 0))

\* ------------------------------------------------------------- int(string)

Digits == <<"0", "1", "2", "3", "4", "5", "6", "7", "8", "9">>

IsDigit(c) == \E i \in 1..Len(Digits) : Digits[i] = c

DigitVal(c) == (CHOOSE i \in 1..Len(Digits) : Digits[i] = c) - 1

RECURSIVE DigitsVal(_)
DigitsVal(s) ==
  IF s = <<>> THEN 0
  ELSE 10 * DigitsVal(SubSeq(s, 1, Len(s) - 1)) + DigitVal(s[Len(s)])

AllDigits(s) == Len(s) > 0 /\ \A i \in 1..Len(s) : IsDigit(s[i])

\* int(s) for a string given as its characters: an optional sign and digits;
\* anything else raises ValueError (ok = FALSE).
ParseInt(s) ==
  IF s # <<>> /\ s[1] \in {"-", "+"}
  THEN IF AllDigits(Tail(s))
       THEN [ok |-> TRUE,
             val |-> IF s[1] = "-" THEN 0 - DigitsVal(Tail(s)) ELSE DigitsVal(Tail(s))]
       ELSE [ok |-> FALSE, val |-> 0]
  ELSE IF AllDigits(s) THEN [ok |-> TRUE, val |-> DigitsVal(s)]
       ELSE [ok |-> FALSE, val |-> 0]

\* int(channel_config.get('max_episodes', 1))
MaxEpisodesOf(channel_config) ==
  IF "max_episodes" \in DOMAIN channel_config
  THEN ParseInt(channel_config["max_episodes"])
  ELSE [ok |-> TRUE, val |-> 1]

\* ------------------------------------------------------------ get_channels

\* A parsed configuration is the sequence of its sections in file order, each
\* [name, opts] as configparser returns them (section names are unique).
SectionNames(cfg) == {cfg[i].name : i \in 1..Len(cfg)}

\* global_config: dict(self.config['*']) when a [*] section exists, else {}.
GlobalConfig(cfg) ==
  IF "*" \in SectionNames(cfg)
  THEN (CHOOSE s \in {cfg[i] : i \in 1..Len(cfg)} : s.name = "*").opts
  ELSE EmptyDict

\* A mutation: the global section overrides the channel's own keys.
MergeGlobalWins(global_config, section_opts) ==
  [k \in DOMAIN global_config \cup DOMAIN section_opts |->
     IF k \in DOMAIN global_config THEN global_config[k] ELSE section_opts[k]]

\* channel_config = dict(global_config); channel_config.update(section)
Merge(global_config, section_opts) ==
  [k \in DOMAIN global_config \cup DOMAIN section_opts |->
     IF k \in DOMAIN section_opts THEN section_opts[k] ELSE global_config[k]]

RECURSIVE GetChannelsFrom(_, _)
GetChannelsFrom(cfg, global_config) ==
  IF cfg = <<>> THEN <<>>
  ELSE LET section == Head(cfg)
           channel_config == Merge(global_config, section.opts)
           rest == GetChannelsFrom(Tail(cfg), global_config)
       IN IF section.name = "*" THEN rest
          ELSE IF "url" \notin DOMAIN channel_config THEN rest
          ELSE <<[name |-> section.name, config |-> channel_config]>> \o rest

\* get_channels(): the channels dict as the sequence of its items, in order.
GetChannels(cfg) == GetChannelsFrom(cfg, GlobalConfig(cfg))

\* ------------------------------------------------------ _generate_filename

AsciiLetters == {"a", "b", "x", "y", "Z"}

AsciiDigits == {"0", "7"}

\* Letters and digits outside ASCII, named by code point (e-acute, Arabic-Indic 3).
UnicodeLetters == {"U+00E9"}

UnicodeDigits == {"U+0663"}

\* A mutation: \w taken with re.ASCII.
IsWordCharAscii(c) == c \in AsciiLetters \cup AsciiDigits \cup {"_"}

\* \w on a str pattern: Unicode letters and digits, and the underscore.
IsWordChar(c) ==
  c \in AsciiLetters \cup AsciiDigits \cup UnicodeLetters \cup UnicodeDigits \cup {"_"}

\* The character class [^\w\-_\.] negated: what re.sub leaves alone.
Kept(c) == IsWordChar(c) \/ c \in {"-", "_", "."}

\* re.sub(r'[^\w\-_\.]', '_', title)
RECURSIVE Sanitize(_)
Sanitize(title) ==
  IF title = <<>> THEN <<>>
  ELSE <<IF Kept(Head(title)) THEN Head(title) ELSE "_">> \o Sanitize(Tail(title))

\* os.path.splitext(urlparse(url).path)[1] or '.mp3'
ExtOf(url) == IF url.ext = "" THEN ".mp3" ELSE url.ext

\* _generate_filename: the filename as the pieces of the f-string.
GenerateFilename(episode, channel_name, channel_config) ==
  IF "filespec" \in DOMAIN channel_config
  THEN <<channel_config["filespec"]>>
  ELSE <<channel_name, "_">> \o Sanitize(episode.title) \o <<ExtOf(episode.enclosure_url)>>

\* ------------------------------------------------------------ dedup tracker

\* load_downloaded_urls: the set of the file's lines; a missing file (no line
\* was ever appended) or an unreadable one gives the empty set.
LoadDownloadedUrls(urls_file, read_ok) ==
  IF urls_file # <<>> /\ read_ok
  THEN {urls_file[i] : i \in 1..Len(urls_file)}
  ELSE {}

\* A mutation: the in-memory insertion is rolled back when the append fails.
SaveRollsBack(urls, urls_file, url, append_ok) ==
  IF url \notin urls /\ append_ok
  THEN [urls |-> urls \cup {url}, file |-> Append(urls_file, url),
        events |-> <<"record", "append">>]
  ELSE [urls |-> urls, file |-> urls_file,
        events |-> IF url \in urls THEN <<"record">> ELSE <<"record", "append_failed">>]

\* A mutation: the tracking file is rewritten from the set instead of appended to.
SaveRewrites(urls, urls_file, url, append_ok) ==
  IF url \notin urls
  THEN [urls |-> urls \cup {url},
        file |-> IF append_ok THEN <<url>> ELSE urls_file,
        events |-> IF append_ok THEN <<"record", "append">>
                   ELSE <<"record", "append_failed">>]
  ELSE [urls |-> urls, file |-> urls_file, events |-> <<"record">>]

\* save_downloaded_url(url): add to the set, then append one line; an IOError
\* of the append is caught and the set keeps the URL.
SaveDownloadedUrl(urls, urls_file, url, append_ok) ==
  IF url \notin urls
  THEN [urls |-> urls \cup {url},
        file |-> IF append_ok THEN Append(urls_file, url) ELSE urls_file,
        events |-> IF append_ok THEN <<"record", "append">>
                   ELSE <<"record", "append_failed">>]
  ELSE [urls |-> urls, file |-> urls_file, events |-> <<"record">>]

\* --------------------------------------------------------- download_episode

\* The environment a call works on: env = [urls, file, files, dirs, playlists]
\*   urls       self.downloaded_urls
\*   file       the lines of the tracking file
\*   files      path -> [of, complete]: the enclosure a file holds bytes of
\*   dirs       the directories that exist
\*   playlists  playlist path -> the lines appended to it
\* and what the environment does to it: io = [mkdir_ok, fetch, append_ok,
\* playlist_ok], fetch being one of FetchOutcomes. _set_metadata_tags catches
\* every exception and changes none of this state: it is the event "tag".
FetchOutcomes == {"ok", "get_failed", "open_failed", "write_failed"}

\* A mutation: the URL check is dropped.
AlreadyDownloadedNever(force, url, urls) == FALSE

\* line 146: not self.force_overwrite and episode['enclosure_url'] in self.downloaded_urls
AlreadyDownloaded(force, url, urls) == ~force /\ url \in urls

\* A mutation: the existence check is dropped.
SkipExistingNever(exists, force) == FALSE

\* line 160: filepath.exists() and not self.force_overwrite
SkipExisting(exists, force) == exists /\ ~force

\* download_dir / filename
FilePath(episode, channel_name, channel_config) ==
  <<Get(channel_config, "spool", Cwd)>>
    \o GenerateFilename(episode, channel_name, channel_config)

\* _update_playlist: append the path; an IOError is caught.
UpdatePlaylist(playlists, filepath, playlist_path, playlist_ok) ==
  IF playlist_ok
  THEN (playlist_path :> Append(Get(playlists, playlist_path, <<>>), filepath)) @@ playlists
  ELSE playlists

\* A mutation: the existing-file branch returns without recording the URL.
ExistingFileNotRecorded(env, url, append_ok) ==
  [ret |-> "True", events |-> <<"mkdir", "exists">>,
   urls |-> env.urls, file |-> env.file, files |-> env.files,
   dirs |-> env.dirs, playlists |-> env.playlists]

\* lines 160-164: the file is there; record the URL and return True.
ExistingFile(env, url, append_ok) ==
  LET saved == SaveDownloadedUrl(env.urls, env.file, url, append_ok)
  IN [ret |-> "True", events |-> <<"mkdir", "exists">> \o saved.events,
      urls |-> saved.urls, file |-> saved.file, files |-> env.files,
      dirs |-> env.dirs, playlists |-> env.playlists]

\* lines 168-198: GET the enclosure, write it, then record, tag and playlist.
Fetch(env, url, filepath, channel_config, io) ==
  LET unchanged(ev) ==
        [ret |-> "False", events |-> <<"mkdir", "exists">> \o ev,
         urls |-> env.urls, file |-> env.file, files |-> env.files,
         dirs |-> env.dirs, playlists |-> env.playlists]
      saved == SaveDownloadedUrl(env.urls, env.file, url, io.append_ok)
      tagged == <<"tag">>
      listed == IF "playlist" \in DOMAIN channel_config
                THEN <<IF io.playlist_ok THEN "playlist" ELSE "playlist_failed">>
                ELSE <<>>
  IN CASE io.fetch = "get_failed" -> unchanged(<<"get", "get_failed">>)
       [] io.fetch = "open_failed" -> unchanged(<<"get", "open_failed">>)
       [] io.fetch = "write_failed" ->
            [unchanged(<<"get", "write_failed">>) EXCEPT
               !.files = (filepath :> [of |-> url, complete |-> FALSE]) @@ env.files]
       [] OTHER ->
            [ret |-> "True",
             events |-> <<"mkdir", "exists", "get", "write">> \o saved.events
                          \o tagged \o listed,
             urls |-> saved.urls, file |-> saved.file,
             files |-> (filepath :> [of |-> url, complete |-> TRUE]) @@ env.files,
             dirs |-> env.dirs,
             playlists |-> IF "playlist" \in DOMAIN channel_config
                           THEN UpdatePlaylist(env.playlists, filepath,
                                               channel_config["playlist"], io.playlist_ok)
                           ELSE env.playlists]

\* What the environment may do to the I/O calls of one download_episode call.
IoChoices ==
  [mkdir_ok : BOOLEAN, fetch : FetchOutcomes, append_ok : BOOLEAN,
   playlist_ok : BOOLEAN]

\* The I/O calls of a download_episode call that failed.
Failures(evs) ==
  Cardinality({i \in 1..Len(evs) :
                 evs[i] \in {"mkdir_failed", "get_failed", "open_failed", "write_failed",
                             "append_failed", "playlist_failed"}})

\* download_episode(episode, channel_name, channel_config): what it returns
\* ("raised" when mkdir's OSError leaves the method), the I/O it did, and the
\* environment after it.
DownloadEpisode(episode, channel_name, channel_config, force, env, io) ==
  LET url == episode.enclosure_url
      spool_dir == Get(channel_config, "spool", Cwd)
      filepath == FilePath(episode, channel_name, channel_config)
      same(r, ev) ==
        [ret |-> r, events |-> ev, urls |-> env.urls, file |-> env.file,
         files |-> env.files, dirs |-> env.dirs, playlists |-> env.playlists]
      made == [env EXCEPT !.dirs = env.dirs \cup {spool_dir}]
  IN IF url = NoUrl THEN same("False", <<>>)
     ELSE IF AlreadyDownloaded(force, url, env.urls) THEN same("True", <<>>)
     ELSE IF spool_dir \notin env.dirs /\ ~io.mkdir_ok
          THEN same("raised", <<"mkdir_failed">>)
     ELSE IF SkipExisting(filepath \in DOMAIN env.files, force)
          THEN ExistingFile(made, url, io.append_ok)
     ELSE Fetch(made, url, filepath, channel_config, io)

\* ------------------------------------------------- configurations and feeds

U1 == [id |-> "e1", ext |-> ""]

U2 == [id |-> "e2", ext |-> ""]

Urls == {U1, U2}

Item(title, url) == [title |-> title, enclosure_url |-> url]

\* The item elements of each feed document, in document order. Feed "fa"
\* repeats an enclosure and has an item without one; "fb" has two titles that
\* sanitize alike and shares an enclosure with "fa".
Feeds ==
  [fa |-> <<Item(<<"x">>, U1), Item(<<"y">>, U1), Item(<<"y">>, NoUrl)>>,
   fb |-> <<Item(<<"x", "!">>, U2), Item(<<"x", "?">>, U1)>>]

\* [*] with max_episodes gm (absent when gm = <<>>), then channel a (spool d),
\* a section without url, and channel b (playlist; its own max_episodes bm
\* and a filespec when asked for).
Config(gm, bm, filespec) ==
  << [name |-> "*",
      opts |-> IF gm = <<>> THEN [genre |-> "g"]
               ELSE [genre |-> "g", max_episodes |-> gm]],
     [name |-> "a", opts |-> [url |-> "fa", spool |-> "d"]],
     [name |-> "c", opts |-> [spool |-> "d"]],
     [name |-> "b",
      opts |-> [k \in {"url", "playlist"}
                    \cup (IF bm = <<>> THEN {} ELSE {"max_episodes"})
                    \cup (IF filespec THEN {"filespec"} ELSE {}) |->
                 CASE k = "url" -> "fb"
                   [] k = "playlist" -> "pl"
                   [] k = "filespec" -> "f.mp3"
                   [] OTHER -> bm]] >>

\* The configurations a behaviour starts from.
Configs ==
  { Config(<<>>, <<>>, FALSE),
    Config(<<"2">>, <<>>, FALSE),
    Config(<<"2">>, <<>>, TRUE),
    Config(<<"-", "1">>, <<>>, FALSE),
    Config(<<"0">>, <<"3">>, FALSE),
    Config(<<"1">>, <<"x">>, FALSE),
    Config(<<"1", "0">>, <<"1">>, TRUE),
    <<[name |-> "*", opts |-> [spool |-> "d"]], [name |-> "c", opts |-> [genre |-> "g"]]>> }

\* The configurations get_channels is checked on by itself: up to MaxChannels
\* channel sections and [*], in any order, each with or without url and genre.
ChannelNames == <<"a", "b", "c", "d">>

SectionPool == {"*"} \cup {ChannelNames[i] : i \in 1..MaxChannels}

OptsPool ==
  {EmptyDict, [url |-> "f1"], [url |-> "f2"], [genre |-> "g1"],
   [url |-> "f1", genre |-> "g1"], [url |-> "f2", genre |-> "g2"]}

SectionSeqs ==
  UNION {[1..n -> [name : SectionPool, opts : OptsPool]] : n \in 0..(MaxChannels + 1)}

ParsedConfigs ==
  {c \in SectionSeqs : \A i, j \in 1..Len(c) : c[i].name = c[j].name => i = j}

\* The titles and enclosure URLs _generate_filename is checked on by itself.
TitleChars == {"a", "Z", "7", "U+00E9", "U+0663", " ", "/", "_", "-", "."}

Titles == UNION {[1..n -> TitleChars] : n \in 0..MaxTitleLen}

FilenameConfigs == {[url |-> "fa"], [url |-> "fa", filespec |-> "f.mp3"]}

FilenameUrls == {U1, [id |-> "e3", ext |-> ".ogg"]}

\* -------------------------------------------------------------- the program

VARIABLES
  config,           \* self.config after load_config: the sections, in order
  run,              \* how many process runs have started
  pc,               \* "idle" between runs, "channel" / "episode" inside the loops
  outcome,          \* how the last run ended: "completed", "raised", "config_missing"
  force_overwrite,  \* self.force_overwrite of this run
  downloaded_urls,  \* self.downloaded_urls
  urls_file,        \* the lines of ~/.dirtyget_downloaded_urls
  files,            \* path -> [of, complete]
  dirs,             \* the directories that exist
  playlists,        \* playlist path -> lines
  channels,         \* get_channels(), as a sequence
  chan,             \* index of the channel the loop is at
  episodes,         \* parse_rss_feed's result for that channel
  ep,               \* index of the episode the loop is at
  call,             \* the last download_episode call: its arguments and what held before it
  ret,              \* what it returned
  events,           \* the I/O it did
  load_ok,          \* load_downloaded_urls of this run read the file (or none existed)
  processed,        \* this run: the channels whose feed was requested, in order
  completed,        \* this run: enclosure URL -> bodies written to completion
  curFeed,          \* this run: channel -> how its feed fetch went
  prevFeed,         \* the previous run's curFeed
  curAllTrue,       \* this run: every download_episode call returned True
  prevAllTrue,      \* the previous run's curAllTrue
  curNoFetch,       \* this run: no enclosure GET was issued
  faults,           \* how many I/O calls have failed so far
  fn_episode,       \* _generate_filename called by itself: its episode,
  fn_config,        \*   its channel_config
  filename          \*   and what it returned

vars ==
  <<config, run, pc, outcome, force_overwrite, downloaded_urls, urls_file, files,
    dirs, playlists, channels, chan, episodes, ep, call, ret, events, load_ok,
    processed, completed, curFeed, prevFeed, curAllTrue, prevAllTrue, curNoFetch,
    faults, fn_episode, fn_config, filename>>

Filename == <<fn_episode, fn_config, filename>>

NoCall == [url |-> NoUrl, filepath |-> <<>>, in_set |-> FALSE, existed |-> FALSE]

NoFeeds == [c \in {"a", "b", "c"} |-> "none"]

\* Every variable but config, as PodcastDownloader.__init__ and a fresh home
\* directory leave it.
Fresh ==
  /\ run = 0
  /\ pc = "idle"
  /\ outcome = "none"
  /\ force_overwrite = FALSE
  /\ downloaded_urls = {}
  /\ urls_file = <<>>
  /\ files = <<>>
  /\ dirs = {Cwd}
  /\ playlists = <<>>
  /\ channels = <<>>
  /\ chan = 0
  /\ episodes = <<>>
  /\ ep = 0
  /\ call = NoCall
  /\ ret = "none"
  /\ events = <<>>
  /\ load_ok = TRUE
  /\ processed = <<>>
  /\ completed = [u \in Urls |-> 0]
  /\ curFeed = NoFeeds
  /\ prevFeed = NoFeeds
  /\ curAllTrue = FALSE
  /\ prevAllTrue = FALSE
  /\ curNoFetch = TRUE
  /\ faults = 0
  /\ fn_episode = Item(<<>>, NoUrl)
  /\ fn_config = EmptyDict
  /\ filename = <<>>

Init == config \in Configs /\ Fresh

\* The filesystem and tracking file, as download_episode sees them.
Env ==
  [urls |-> downloaded_urls, file |-> urls_file, files |-> files, dirs |-> dirs,
   playlists |-> playlists]

\* What a run leaves alone until download_episode is reached.
Disk == <<urls_file, files, dirs, playlists>>

\* main() with a configuration file that does not exist: load_config raises
\* FileNotFoundError and the process ends.
ConfigMissing ==
  /\ pc = "idle" /\ run < MaxRuns /\ faults < MaxFaults
  /\ run' = run + 1
  /\ faults' = faults + 1
  /\ outcome' = "config_missing"
  /\ \E force \in BOOLEAN : force_overwrite' = force
  /\ downloaded_urls' = {}
  /\ processed' = <<>>
  /\ completed' = [u \in Urls |-> 0]
  /\ prevFeed' = curFeed /\ curFeed' = NoFeeds
  /\ prevAllTrue' = curAllTrue /\ curAllTrue' = TRUE
  /\ curNoFetch' = TRUE
  /\ UNCHANGED <<config, pc, Disk, channels, chan, episodes, ep, call, ret, events,
                 load_ok, Filename>>

\* main() up to the channel loop: __init__, load_config, load_downloaded_urls,
\* get_channels, and the return when no channel is configured.
StartRun ==
  /\ pc = "idle" /\ run < MaxRuns
  /\ run' = run + 1
  /\ \E force \in BOOLEAN : force_overwrite' = force
  /\ \E read_ok \in BOOLEAN :
       /\ downloaded_urls' = LoadDownloadedUrls(urls_file, read_ok)
       /\ load_ok' = (urls_file = <<>> \/ read_ok)
       /\ faults' = IF load_ok' THEN faults ELSE faults + 1
       /\ faults' <= MaxFaults
  /\ channels' = GetChannels(config)
  /\ IF channels' = <<>>
     THEN pc' = "idle" /\ outcome' = "completed" /\ chan' = 0
     ELSE pc' = "channel" /\ outcome' = "running" /\ chan' = 1
  /\ episodes' = <<>> /\ ep' = 0
  /\ call' = NoCall /\ ret' = "none" /\ events' = <<>>
  /\ processed' = <<>>
  /\ completed' = [u \in Urls |-> 0]
  /\ prevFeed' = curFeed /\ curFeed' = NoFeeds
  /\ prevAllTrue' = curAllTrue /\ curAllTrue' = TRUE
  /\ curNoFetch' = TRUE
  /\ UNCHANGED <<config, Disk, Filename>>

\* The loop moves on from channel chan: to the next one, or out of the run.
NextChannel ==
  IF chan < Len(channels)
  THEN pc' = "channel" /\ chan' = chan + 1 /\ outcome' = outcome
  ELSE pc' = "idle" /\ chan' = chan /\ outcome' = "completed"

\* One pass of the channel loop up to the episode loop (lines 313-324):
\* int(max_episodes), which may raise ValueError out of the run, then
\* parse_rss_feed, which returns [] when the request or the parse fails.
ProcessChannel ==
  /\ pc = "channel"
  /\ LET channel == channels[chan]
         max_episodes == MaxEpisodesOf(channel.config)
     IN IF ~max_episodes.ok
        THEN /\ pc' = "idle" /\ outcome' = "raised"
             /\ UNCHANGED <<chan, episodes, ep, processed, curFeed, faults>>
        ELSE \E feed_ok \in BOOLEAN :
               /\ faults' = IF feed_ok THEN faults ELSE faults + 1
               /\ faults' <= MaxFaults
               /\ processed' = Append(processed, channel.name)
               /\ curFeed' = [curFeed EXCEPT
                                ![channel.name] = IF feed_ok THEN "ok" ELSE "failed"]
               /\ episodes' = IF feed_ok
                              THEN PySlice(Feeds[channel.config["url"]], max_episodes.val)
                              ELSE <<>>
               /\ IF episodes' = <<>>
                  THEN NextChannel /\ ep' = 0
                  ELSE pc' = "episode" /\ ep' = 1 /\ UNCHANGED <<chan, outcome>>
  /\ UNCHANGED <<config, run, force_overwrite, downloaded_urls, Disk, channels, call,
                 ret, events, load_ok, completed, prevFeed, curAllTrue, prevAllTrue,
                 curNoFetch, Filename>>

\* One pass of the episode loop (lines 327-329): download_episode on
\* episodes[ep]; its return value is dropped, an exception ends the run.
DownloadEpisodeStep ==
  /\ pc = "episode"
  /\ LET channel == channels[chan]
         episode == episodes[ep]
         filepath == FilePath(episode, channel.name, channel.config)
     IN \E r \in {DownloadEpisode(episode, channel.name, channel.config,
                                   force_overwrite, Env, io) : io \in IoChoices} :
             /\ faults' = faults + Failures(r.events)
             /\ faults' <= MaxFaults
             /\ call' = [url |-> episode.enclosure_url, filepath |-> filepath,
                         in_set |-> episode.enclosure_url \in downloaded_urls,
                         existed |-> filepath \in DOMAIN files]
             /\ ret' = r.ret
             /\ events' = r.events
             /\ downloaded_urls' = r.urls
             /\ urls_file' = r.file
             /\ files' = r.files
             /\ dirs' = r.dirs
             /\ playlists' = r.playlists
             /\ completed' = IF \E i \in 1..Len(r.events) : r.events[i] = "write"
                             THEN [completed EXCEPT ![episode.enclosure_url] = @ + 1]
                             ELSE completed
             /\ curAllTrue' = (curAllTrue /\ r.ret = "True")
             /\ curNoFetch' = (curNoFetch /\ \A i \in 1..Len(r.events) : r.events[i] # "get")
             /\ IF r.ret = "raised"
                THEN pc' = "idle" /\ outcome' = "raised" /\ UNCHANGED <<chan, ep>>
                ELSE IF ep < Len(episodes)
                THEN ep' = ep + 1 /\ UNCHANGED <<pc, chan, outcome>>
                ELSE NextChannel /\ ep' = ep
  /\ UNCHANGED <<config, run, force_overwrite, channels, episodes, load_ok, processed,
                 curFeed, prevFeed, prevAllTrue, Filename>>

\* load_config and get_channels by themselves.
GetChannelsStep ==
  /\ outcome = "none"
  /\ outcome' = "channels"
  /\ channels' = GetChannels(config)
  /\ UNCHANGED <<config, run, pc, force_overwrite, downloaded_urls, Disk, chan, episodes,
                 ep, call, ret, events, load_ok, processed, completed, curFeed, prevFeed,
                 curAllTrue, prevAllTrue, curNoFetch, faults, Filename>>

InitConfig == config \in ParsedConfigs /\ Fresh

SpecConfig == InitConfig /\ [][GetChannelsStep]_vars

\* _generate_filename by itself, for channel "a".
GenerateFilenameStep ==
  /\ fn_config = EmptyDict
  /\ \E t \in Titles, u \in FilenameUrls, c \in FilenameConfigs :
       /\ fn_episode' = Item(t, u)
       /\ fn_config' = c
       /\ filename' = GenerateFilename(Item(t, u), "a", c)
  /\ UNCHANGED <<config, run, pc, outcome, force_overwrite, downloaded_urls, Disk,
                 channels, chan, episodes, ep, call, ret, events, load_ok, processed,
                 completed, curFeed, prevFeed, curAllTrue, prevAllTrue, curNoFetch, faults>>

InitFilename == config = <<>> /\ Fresh

SpecFilename == InitFilename /\ [][GenerateFilenameStep]_vars

Next == ConfigMissing \/ StartRun \/ ProcessChannel \/ DownloadEpisodeStep

Spec == Init /\ [][Next]_vars

\* ------------------------------------------------------------------ claims

\* The arguments of the download_episode call the episode loop is about to make.
CurChannel == channels[chan]

CurUrl == episodes[ep].enclosure_url

CurPath == FilePath(episodes[ep], CurChannel.name, CurChannel.config)

Has(evs, e) == \E i \in 1..Len(evs) : evs[i] = e

Lines(f) == {f[i] : i \in 1..Len(f)}

\* C1: without --force, a download_episode call on an enclosure URL that is in
\* the dedup set returns True, does no I/O at all (no mkdir, no existence
\* check, no GET, no write, no append) and leaves the files, the directories,
\* the tracking file, the playlists and the dedup set as they were.
C1_DedupHitSkipsEverything ==
  [][(pc = "episode" /\ ~force_overwrite /\ CurUrl \in downloaded_urls)
       => (/\ ret' = "True"
           /\ events' = <<>>
           /\ UNCHANGED <<files, dirs, urls_file, playlists, downloaded_urls>>)]_vars

\* A call that was skipped on a dedup hit.
C1_Witness ==
  /\ ~force_overwrite /\ call.url # NoUrl /\ call.in_set
  /\ ret = "True" /\ events = <<>>

\* C2: in a run without --force no enclosure URL has its body written to
\* completion more than once.
C2_AtMostOneDownloadPerUrl ==
  ~force_overwrite => \A u \in Urls : completed[u] <= 1

\* An enclosure downloaded once whose tracking-file append failed, met again
\* in the same run and skipped.
C2_Witness ==
  /\ ~force_overwrite /\ call.url # NoUrl
  /\ completed[call.url] = 1
  /\ call.url \notin Lines(urls_file)
  /\ call.in_set /\ ret = "True" /\ events = <<>>

\* What C3 says of every step inside a run, but for when a line is appended.
AppendOnly ==
  /\ downloaded_urls \subseteq downloaded_urls'
  /\ Len(urls_file') >= Len(urls_file)
  /\ SubSeq(urls_file', 1, Len(urls_file)) = urls_file
  /\ Len(urls_file') <= Len(urls_file) + 1
  /\ Len(urls_file') = Len(urls_file) + 1
       => /\ urls_file'[Len(urls_file')] \notin downloaded_urls
          /\ downloaded_urls' = downloaded_urls \cup {urls_file'[Len(urls_file')]}

\* C3 as stated: after load_downloaded_urls the dedup set only grows, the
\* tracking file is only appended to, and a line is appended exactly when a
\* URL that was not in the set is recorded.
C3_AppendedExactlyWhenRecorded ==
  [][run' = run
       => /\ AppendOnly
          /\ (downloaded_urls' # downloaded_urls)
               <=> (Len(urls_file') = Len(urls_file) + 1)]_vars

\* C3, amended: the dedup set only grows and the tracking file is only
\* appended to, one line at a time and only for a URL that was not in the set
\* and now is; whenever a new URL is recorded the line is appended unless the
\* append itself failed.
C3_AppendOnlyUnlessAppendFails ==
  [][run' = run
       => /\ AppendOnly
          /\ (downloaded_urls' # downloaded_urls /\ ~Has(events', "append_failed"))
               => Len(urls_file') = Len(urls_file) + 1]_vars

\* A line appended to a tracking file that already held one.
C3_Witness ==
  /\ Has(events, "append") /\ Len(urls_file) >= 2
  /\ urls_file[Len(urls_file)] = call.url /\ call.url \in downloaded_urls

\* The feeds answered in this run, so far, as they did in the previous run.
FeedsUnchanged == \A c \in DOMAIN curFeed : curFeed[c] # "none" => curFeed[c] = prevFeed[c]

\* A second run without --force after a run whose calls all returned True.
SecondRun == run >= 2 /\ ~force_overwrite /\ prevAllTrue /\ FeedsUnchanged

\* C4 as stated: after a run in which download_episode returned True for every
\* selected episode, a run of the same configuration on unchanged feeds without
\* --force issues no enclosure GET and every download_episode call returns True.
C4_SecondRunFetchesNothing == SecondRun => (curAllTrue /\ curNoFetch)

\* C4, amended: the same, provided load_downloaded_urls of the second run read
\* the tracking file (or there was none to read).
C4_SecondRunFetchesNothingIfLoaded ==
  (SecondRun /\ load_ok) => (curAllTrue /\ curNoFetch)

\* A completed second run in which an episode whose URL the tracking file had
\* lost was covered by the file-existence check.
C4_Witness ==
  /\ SecondRun /\ load_ok
  /\ pc = "idle" /\ outcome = "completed" /\ Len(processed) = 2
  /\ \A c \in {"a", "b"} : curFeed[c] = "ok"
  /\ call.existed /\ ~call.in_set /\ ret = "True"

\* C5: a run that found its configuration file ends by completing, with every
\* configured channel that has a url processed, in configuration order.
C5_RunNeverAborts ==
  (pc = "idle" /\ run >= 1 /\ outcome # "config_missing")
    => /\ outcome = "completed"
       /\ Len(processed) = Len(channels)
       /\ \A i \in 1..Len(channels) : processed[i] = channels[i].name

\* C7: the episodes handed to download_episode for a channel are the first
\* min(m, n) items of its feed, m being max_episodes and n the number of items
\* (none when m <= 0).
C7_FirstMinItems ==
  pc = "episode"
    => LET m == MaxEpisodesOf(CurChannel.config).val
           items == Feeds[CurChannel.config["url"]]
       IN /\ m > 0
          /\ Len(episodes) = Min(m, Len(items))
          /\ \A i \in 1..Len(episodes) : episodes[i] = items[i]

\* C9: with --force, a download_episode call on an episode that has an
\* enclosure URL issues the enclosure GET, whatever the dedup set and the
\* filesystem hold, and a completed write leaves the enclosure at the path.
C9_ForceAlwaysFetches ==
  [][(pc = "episode" /\ force_overwrite /\ CurUrl # NoUrl)
       => /\ Has(events', "get")
          /\ Has(events', "write")
               => files'[CurPath] = [of |-> CurUrl, complete |-> TRUE]]_vars

\* C9 but for a spool directory that cannot be created: then mkdir raises
\* before the GET (the abort C5 is about) and nothing else stops the fetch.
C9_ForceFetchesUnlessMkdirRaises ==
  [][(pc = "episode" /\ force_overwrite /\ CurUrl # NoUrl)
       => \/ events' = <<"mkdir_failed">> /\ ret' = "raised"
          \/ /\ Has(events', "get")
             /\ Has(events', "write")
                  => files'[CurPath] = [of |-> CurUrl, complete |-> TRUE]]_vars

\* C10: without --force, a download_episode call on an enclosure URL that is
\* not in the dedup set but whose path exists returns True with no GET, no
\* write, no tagging and no playlist append; the files and playlists are as
\* before, the URL is in the dedup set, and the tracking file has one more
\* line, the URL, unless the append failed.
C10_ExistingFileIsRecordedNotFetched ==
  [][(/\ pc = "episode" /\ ~force_overwrite
      /\ CurUrl # NoUrl /\ CurUrl \notin downloaded_urls
      /\ CurPath \in DOMAIN files)
       => /\ ret' = "True"
          /\ \A e \in {"get", "write", "write_failed", "tag", "playlist"} : ~Has(events', e)
          /\ UNCHANGED <<files, playlists>>
          /\ downloaded_urls' = downloaded_urls \cup {CurUrl}
          /\ IF Has(events', "append_failed")
             THEN urls_file' = urls_file
             ELSE urls_file' = Append(urls_file, CurUrl)]_vars

\* Such a call, once with the append done and once with it failed.
C10_Witness ==
  /\ ~force_overwrite /\ call.url # NoUrl /\ ~call.in_set /\ call.existed
  /\ ret = "True" /\ call.url \in downloaded_urls
  /\ Has(events, "append")
  /\ urls_file[Len(urls_file)] = call.url
  /\ files[call.filepath].of # call.url

\* The [*] section's own key/values, read off the sections.
StarOpts ==
  IF \E i \in 1..Len(config) : config[i].name = "*"
  THEN config[CHOOSE i \in 1..Len(config) : config[i].name = "*"].opts
  ELSE EmptyDict

\* A non-wildcard section that has url, of its own or from [*].
IsChannel(section) ==
  section.name # "*" /\ ("url" \in DOMAIN section.opts \/ "url" \in DOMAIN StarOpts)

\* C6: get_channels returns the non-wildcard sections that have url after
\* merging, in configuration order, each with the [*] keys overlaid by its
\* own: an own key keeps its value, a key only in [*] takes the global one.
C6_ChannelsAreMergedSections ==
  outcome = "channels"
    => LET wanted == SelectSeq(config, IsChannel)
       IN /\ Len(channels) = Len(wanted)
          /\ \A i \in 1..Len(channels) :
               /\ channels[i].name = wanted[i].name
               /\ channels[i].name # "*"
               /\ DOMAIN channels[i].config = DOMAIN StarOpts \cup DOMAIN wanted[i].opts
               /\ \A k \in DOMAIN wanted[i].opts :
                    channels[i].config[k] = wanted[i].opts[k]
               /\ \A k \in DOMAIN StarOpts \ DOMAIN wanted[i].opts :
                    channels[i].config[k] = StarOpts[k]

\* A [*] with url and genre, a channel that overrides url and inherits genre,
\* and one that inherits both.
C6_Witness ==
  /\ outcome = "channels"
  /\ StarOpts = [url |-> "f1", genre |-> "g1"]
  /\ \E i, j \in 1..Len(channels) :
       /\ channels[i].config = [url |-> "f2", genre |-> "g1"]
       /\ channels[j].config = [url |-> "f1", genre |-> "g1"]

\* The sanitized title inside a default filename: between "<channel>_" and
\* the extension.
SanitizedTitle == SubSeq(filename, 3, Len(filename) - 1)

DefaultFilename == fn_config # EmptyDict /\ "filespec" \notin DOMAIN fn_config

\* C8 as stated: the sanitized title has the title's length; an ASCII letter
\* or digit, an underscore, a hyphen or a dot stays, and every other
\* character, a letter or digit outside ASCII included, becomes an
\* underscore.
C8_AsciiOnlyKept ==
  DefaultFilename
    => /\ Len(SanitizedTitle) = Len(fn_episode.title)
       /\ \A i \in 1..Len(fn_episode.title) :
            SanitizedTitle[i] =
              IF fn_episode.title[i] \in AsciiLetters \cup AsciiDigits \cup {"_", "-", "."}
              THEN fn_episode.title[i] ELSE "_"

\* C8, amended: the sanitized title has the title's length; a letter or digit
\* of any script, an underscore, a hyphen or a dot stays, and every other
\* character becomes an underscore.
C8_WordCharsKept ==
  DefaultFilename
    => /\ Len(SanitizedTitle) = Len(fn_episode.title)
       /\ \A i \in 1..Len(fn_episode.title) :
            SanitizedTitle[i] =
              IF fn_episode.title[i] \in
                   AsciiLetters \cup AsciiDigits \cup UnicodeLetters \cup UnicodeDigits
                     \cup {"_", "-", "."}
              THEN fn_episode.title[i] ELSE "_"

\* A title with a letter outside ASCII, a space and a path separator.
C8_Witness ==
  /\ DefaultFilename
  /\ fn_episode.title = <<"U+00E9", " ", "/">>
  /\ filename = <<"a", "_", "U+00E9", "_", "_", ".mp3">>

\* Event a comes before event b in evs.
Before(evs, a, b) == \E i, j \in 1..Len(evs) : i < j /\ evs[i] = a /\ evs[j] = b

\* The playlist append was attempted.
Listed(evs) == Has(evs, "playlist") \/ Has(evs, "playlist_failed")

\* What C11 says of a call that returns False, and of tagging and the playlist.
FalseChangesNothing ==
  /\ ret' = "False"
       => /\ UNCHANGED <<downloaded_urls, urls_file, playlists>>
          /\ ~Has(events', "record") /\ ~Has(events', "tag") /\ ~Listed(events')
  /\ Has(events', "tag") => Before(events', "write", "tag") /\ Before(events', "record", "tag")
  /\ \A e \in {"playlist", "playlist_failed"} :
       Has(events', e)
         => /\ Before(events', "write", e) /\ Before(events', "tag", e)
            /\ "playlist" \in DOMAIN CurChannel.config
  /\ playlists' # playlists => Has(events', "playlist")

\* The whole body of the episode's enclosure has been written when the URL is
\* recorded: by this call, or earlier into the file the call finds at the path.
WholeBodyWritten ==
  \/ Before(events', "write", "record")
  \/ /\ CurPath \in DOMAIN files
     /\ files[CurPath] = [of |-> CurUrl, complete |-> TRUE]

\* C11: a download_episode call that returns False leaves the dedup set, the
\* tracking file and the playlists unchanged and invokes no tagging; the URL
\* is recorded, the file tagged and the playlist appended only after the whole
\* enclosure body has been written, in that order, the playlist only when the
\* channel has a playlist setting.
C11_RecordOnlyAfterWholeBody ==
  [][pc = "episode"
       => /\ FalseChangesNothing
          /\ Has(events', "record") => WholeBodyWritten]_vars

\* The rest of C11 holds: a call that returns False changes nothing and tags
\* nothing; tagging follows the write and the record, the playlist append
\* follows the tagging and needs a playlist setting; and a URL recorded with
\* no write in the same call is recorded without --force, with a file already
\* at the path and with no GET.
C11_FalseChangesNothing ==
  [][pc = "episode"
       => /\ FalseChangesNothing
          /\ (Has(events', "record") /\ ~Before(events', "write", "record"))
               => /\ ~force_overwrite /\ CurPath \in DOMAIN files
                  /\ ~Has(events', "get")]_vars

\* C12: a URL enters the dedup set only in a call after which the file at the
\* episode's path holds the complete body of that URL's enclosure.
C12_RecordedOnlyIfFileHoldsBody ==
  [][(pc = "episode" /\ CurUrl \notin downloaded_urls /\ CurUrl \in downloaded_urls')
       => /\ CurPath \in DOMAIN files'
          /\ files'[CurPath] = [of |-> CurUrl, complete |-> TRUE]]_vars

====
